---- MODULE Spec2Model ----
(***************************************************************************)
(* Verification model of                                                   *)
(*   src/src/posposet/seeing/strongly.go  (the Strongly-See engine)        *)
(*   src/src/gossip/emitter.go            (the event Emitter)              *)
(*                                                                         *)
(* The module holds four specifications over one set of variables:         *)
(*   SpecSee    the Strongly engine: New/Reset, Add, See                   *)
(*   SpecTxs    Emitter.addTxs applied to enumerated pools                 *)
(*   SpecAllow  Emitter.isAllowedToEmit applied to enumerated inputs       *)
(*   SpecEmit   the Emitter's threads: periodic task, synchronous          *)
(*              EmitEvent callers, Start/Stop controller, engine lock      *)
(* Each specification moves only its own variables; the others keep the    *)
(* idle value given to them by that specification's Init.                  *)
(***************************************************************************)
EXTENDS Integers, Sequences, FiniteSets, TLC

VARIABLES
    \* ---- Strongly (strongly.go:12-18) ----
    members,     \* ss.members : validator -> weight
    nodes,       \* ss.nodes   : creator -> slot
    events,      \* ss.events  : hash -> ancestry record
    fatal,       \* TRUE once ss.Fatalf was called
    lastAdded,   \* hash of the event of the last successful Add (NilEvent if none)
    seeOut,      \* who, whom and outcome of the last See call (NoSee if none)
    \* ---- Emitter (emitter.go:29-50) ----
    config,      \* em.dag, em.config and the limits of basic_check
    fin,         \* arguments of the addTxs / isAllowedToEmit call under check
    fout,        \* <<>> before the call, <<result>> after it
    pc,          \* position of every thread
    engineMu,    \* em.engineMu: the thread holding the lock, or NoThread
    done,        \* em.done: 0 for nil, else the id of the channel
    closed,      \* the ids of the closed done channels
    wg,          \* em.wg
    started,     \* number of periodic goroutines started so far
    now,         \* the clock
    prevEmittedTime, \* em.prevEmittedTime
    gasRate,     \* em.gasRate: the value of the last Mark call
    lastEvent,   \* em.store.GetLastEvent(epoch, coinbase) in the current epoch: <<>> or <<header>>
    heads,       \* em.store.GetHeads(epoch): Lamport times of the other creators' heads
    cyc,         \* per thread, what the emission cycle it runs has done
    crashed,     \* TRUE once a panic has ended the process
    ctlLast      \* the last Start/Stop call that returned

seeVars == <<members, nodes, events, fatal, lastAdded, seeOut>>

funVars == <<config, fin, fout>>

emVars == <<pc, engineMu, done, closed, wg, started, now, prevEmittedTime, gasRate, lastEvent, heads, cyc, crashed, ctlLast>>

vars == <<members, nodes, events, fatal, lastAdded, seeOut, config, fin, fout,
          pc, engineMu, done, closed, wg, started, now, prevEmittedTime, gasRate, lastEvent, heads, cyc, crashed, ctlLast>>

\* the nil *Event
NilEvent == <<>>

NoSee == [who |-> <<>>, whom |-> <<>>, result |-> "none"]

(***************************************************************************)
(* Bounds of the Strongly model.                                           *)
(***************************************************************************)
MaxEvents == 4          \* events added between two Resets
MaxOtherParents == 2    \* parents of an event besides its self-parent

Range(f) == {f[x] : x \in DOMAIN f}

(***************************************************************************)
(* Validator sets (internal.Members: validator -> stake).                  *)
(***************************************************************************)
Validators == {"A", "B", "C", "D"}

Members4 == [v \in Validators |-> 1]

MembersAB == [v \in {"A", "B"} |-> IF v = "A" THEN 3 ELSE 1]

MemberSets == {Members4, MembersAB}

RECURSIVE SumWeights(_, _)
SumWeights(mm, S) ==
    IF S = {} THEN 0
    ELSE LET v == CHOOSE x \in S : TRUE
         IN  mm[v] + SumWeights(mm, S \ {v})

\* internal.Members.NewCounter / Count / HasMajority: the counted validators
\* hold a majority when their stake reaches 2/3 of the total stake plus one.
Quorum(mm) == (2 * SumWeights(mm, DOMAIN mm)) \div 3 + 1

HasMajority(mm, counted) == SumWeights(mm, counted) >= Quorum(mm)

(***************************************************************************)
(* Events.  A hash is the pair <<creator, index>>; ZeroHash is the zero    *)
(* hash a first event carries in Parents in place of a self-parent.        *)
(***************************************************************************)
ZeroHash == <<"", 0>>

IsZero(p) == p = ZeroHash

Slots(mm) == 0 .. (Cardinality(DOMAIN mm) - 1)

\* strongly.go:51-55: the fresh record of Add, both arrays zeroed.
NewEventRecord(mm, creator, index, parents) ==
    [Creator |-> creator, Index |-> index, Parents |-> parents, CreatorN |-> 0,
     LowestSees |-> [n \in Slots(mm) |-> 0],
     HighestSeen |-> [n \in Slots(mm) |-> 0]]

\* strongly.go:62-68: the slot of e.Creator, assigned in first-seen order.
setNodesSlot(ns, creator) ==
    IF creator \in DOMAIN ns THEN ns[creator] ELSE Cardinality(DOMAIN ns)

setNodes(ns, creator) ==
    IF creator \in DOMAIN ns THEN ns
    ELSE [c \in DOMAIN ns \cup {creator} |->
            IF c = creator THEN Cardinality(DOMAIN ns) ELSE ns[c]]

\* strongly.go:116-118: the condition under which setLowestSeesIfMin stores ref.
\* (variant: the comparison with ref reversed)
setLowestSeesIfMin_reversed(e, node, ref) ==
    \/ e.LowestSees[node] = 0
    \/ e.LowestSees[node] < ref
    \/ (node = e.CreatorN /\ e.LowestSees[node] <= e.Index)

setLowestSeesIfMin(e, node, ref) ==
    \/ e.LowestSees[node] = 0
    \/ e.LowestSees[node] > ref
    \/ (node = e.CreatorN /\ e.LowestSees[node] <= e.Index)

\* strongly.go:93-113.  toUpdate is kept as a set: whether a record accepts ref
\* depends on that record alone, and a record that accepted ref rejects it when
\* it is met again (ref is neither 0, nor below itself, nor <= the Index of an
\* ancestor of the same creator), so the order and the repetitions of the
\* work list do not change the outcome.
RECURSIVE updateAllLowestSees(_, _, _, _)
updateAllLowestSees(evs, toUpdate, node, ref) ==
    LET accepted == {h \in toUpdate : setLowestSeesIfMin(evs[h], node, ref)}
        evs2 == [h \in DOMAIN evs |->
                    IF h \in accepted
                    THEN [evs[h] EXCEPT !.LowestSees[node] = ref]
                    ELSE evs[h]]
        next == {p \in UNION {evs[h].Parents : h \in accepted} : ~IsZero(p)}
    IN  IF next = {} THEN evs2
        ELSE updateAllLowestSees(evs2, next, node, ref)

\* strongly.go:85-91
\* (variant: only the parent's own slot is taken over)
updateAllHighestSeen_parentOnly(e, parent) ==
    [e EXCEPT !.HighestSeen =
        [i \in DOMAIN e.HighestSeen |->
            IF i = parent.CreatorN /\ e.HighestSeen[i] < parent.HighestSeen[i]
            THEN parent.HighestSeen[i] ELSE e.HighestSeen[i]]]

updateAllHighestSeen(e, parent) ==
    [e EXCEPT !.HighestSeen =
        [i \in DOMAIN e.HighestSeen |->
            IF e.HighestSeen[i] < parent.HighestSeen[i]
            THEN parent.HighestSeen[i] ELSE e.HighestSeen[i]]]

\* strongly.go:72-73: "seen by himself"
\* (variant: line 72 left out)
SelfSeed_noLowest(e) ==
    [e EXCEPT !.HighestSeen[e.CreatorN] = e.Index]

SelfSeed(e) ==
    [e EXCEPT !.LowestSees[e.CreatorN] = e.Index,
              !.HighestSeen[e.CreatorN] = e.Index]

\* strongly.go:75-82: the loop over e.Parents, in the order `order` in which
\* the map iteration yields them.  The result is <<store, record of e>>.
RECURSIVE fillParents(_, _, _)
fillParents(evs, e, order) ==
    IF order = <<>> THEN <<evs, e>>
    ELSE LET p == Head(order)
         IN  IF IsZero(p) THEN fillParents(evs, e, Tail(order))
             ELSE fillParents(
                     updateAllLowestSees(evs, {p}, e.CreatorN, e.Index),
                     updateAllHighestSeen(e, evs[p]),
                     Tail(order))

\* strongly.go:70-83
fillEventRefs(evs, e, order) == fillParents(evs, SelfSeed(e), order)

\* strongly.go:138: n := ss.nodes[m]; a Go map yields 0 for a missing key.
NodeSlot(ns, m) == IF m \in DOMAIN ns THEN ns[m] ELSE 0

\* strongly.go:139: the test that counts member m.
Coherent(ns, event1, event2, m) ==
    LET n == NodeSlot(ns, m)
    IN  /\ n \in DOMAIN event2.LowestSees
        /\ event2.LowestSees[n] <= event1.HighestSeen[n]
        /\ event2.LowestSees[n] # 0

BoolStr(b) == IF b THEN "true" ELSE "false"

\* strongly.go:134-145.  event1 and event2 are the *Event pointers See read
\* from ss.events, given here as the hashes of the records they point to, or
\* NilEvent when the map held no record; the loop body then dereferences a nil
\* *Event, which panics.  The outcome is "true", "false" or "panic".
sufficientCoherence(mm, ns, evs, event1, event2) ==
    IF DOMAIN mm # {} /\ (event1 = NilEvent \/ event2 = NilEvent) THEN "panic"
    ELSE BoolStr(HasMajority(mm,
            {m \in DOMAIN mm : Coherent(ns, evs[event1], evs[event2], m)}))

\* strongly.go:38-39: a := ss.events[who]
Lookup(evs, h) == IF h \in DOMAIN evs THEN h ELSE NilEvent

\* strongly.go:37-42
See(who, whom) ==
    sufficientCoherence(members, nodes, events,
                        Lookup(events, who), Lookup(events, whom))

(***************************************************************************)
(* The events Add is given.  Creators are validators of the member set;    *)
(* a creator's events are numbered 1, 2, ... and each has the previous one *)
(* as self-parent (no forks); the other parents are events of other        *)
(* creators that are already indexed (parents before children).  In a set  *)
(* of equal-weight validators the engine treats the identities alike, so   *)
(* validators create their first events in alphabetical order there.       *)
(***************************************************************************)
EventsBy(evs, c) == {h \in DOMAIN evs : evs[h].Creator = c}

\* the hashes See is called with: the event indexed last, and a hash that is
\* not indexed (the hash of the next event of validator "A")
SeeArgs(evs, last) ==
    (IF last = NilEvent THEN {} ELSE {last})
        \cup {<<"A", Cardinality(EventsBy(evs, "A")) + 1>>}

OtherParentSets(evs, c) ==
    {S \in SUBSET (DOMAIN evs \ EventsBy(evs, c)) : Cardinality(S) <= MaxOtherParents}

Before(c) ==
    CASE c = "A" -> {} [] c = "B" -> {"A"} [] c = "C" -> {"A", "B"}
      [] OTHER -> {"A", "B", "C"}

EqualWeights(mm) == \A v, w \in DOMAIN mm : mm[v] = mm[w]

Creators(mm, evs) ==
    {c \in DOMAIN mm :
        \/ ~EqualWeights(mm)
        \/ EventsBy(evs, c) # {}
        \/ \A b \in Before(c) : EventsBy(evs, b) # {}}

SelfParent(evs, c) ==
    IF EventsBy(evs, c) = {} THEN ZeroHash ELSE <<c, Cardinality(EventsBy(evs, c))>>

\* the orders in which a map iteration can yield the set S
Orders(S) ==
    {o \in [1 .. Cardinality(S) -> S] : \A i, j \in DOMAIN o : i # j => o[i] # o[j]}

(***************************************************************************)
(* Operations of the engine.                                               *)
(***************************************************************************)
\* the engine before New
IdleSee ==
    /\ members = <<>>
    /\ nodes = <<>>
    /\ events = <<>>
    /\ fatal = FALSE
    /\ lastAdded = NilEvent
    /\ seeOut = NoSee

\* no Emitter
IdleFun ==
    /\ config = <<>>
    /\ fin = <<>>
    /\ fout = <<>>

\* no Emitter threads
IdleEm ==
    /\ pc = <<>>
    /\ engineMu = <<>>
    /\ done = 0
    /\ closed = {}
    /\ wg = 0
    /\ started = 0
    /\ now = 0
    /\ prevEmittedTime = 0
    /\ gasRate = <<>>
    /\ lastEvent = <<>>
    /\ heads = {}
    /\ cyc = <<>>
    /\ crashed = FALSE
    /\ ctlLast = "none"

\* strongly.go:21-28: New(mm)
InitSee ==
    /\ IdleFun
    /\ IdleEm
    /\ members \in MemberSets
    /\ nodes = <<>>
    /\ events = <<>>
    /\ fatal = FALSE
    /\ lastAdded = NilEvent
    /\ seeOut = NoSee

\* strongly.go:31-35
Reset ==
    /\ ~fatal
    /\ \E mm \in MemberSets : members' = mm
    /\ nodes' = <<>>
    /\ events' = <<>>
    /\ lastAdded' = NilEvent
    /\ seeOut' = NoSee
    /\ UNCHANGED <<fatal, funVars, emVars>>

\* strongly.go:44-60, an event that is not yet indexed
Add ==
    /\ ~fatal
    /\ Cardinality(DOMAIN events) < MaxEvents
    /\ \E c \in Creators(members, events) :
         \E others \in OtherParentSets(events, c) :
           LET index == Cardinality(EventsBy(events, c)) + 1
               h == <<c, index>>
               parents == {SelfParent(events, c)} \cup others
               event == [NewEventRecord(members, c, index, parents)
                           EXCEPT !.CreatorN = setNodesSlot(nodes, c)]
           IN  \E order \in Orders(parents) :
                 LET filled == fillEventRefs(events, event, order)
                 IN  /\ nodes' = setNodes(nodes, c)
                     /\ events' = [x \in DOMAIN events \cup {h} |->
                                     IF x = h THEN filled[2] ELSE filled[1][x]]
                     /\ lastAdded' = h
    /\ seeOut' = NoSee
    /\ UNCHANGED <<members, fatal, funVars, emVars>>

\* strongly.go:46-49, an event whose hash is already indexed
\* (variant: the return of line 48 left out, so that Add goes on and builds
\* the record of the event anew)
AddExisting_noReturn ==
    /\ ~fatal
    /\ \E h \in DOMAIN events :
         LET old == events[h]
             event == [NewEventRecord(members, old.Creator, old.Index, old.Parents)
                         EXCEPT !.CreatorN = setNodesSlot(nodes, old.Creator)]
         IN  \E order \in Orders(old.Parents) :
               LET filled == fillEventRefs(events, event, order)
               IN  /\ fatal' = TRUE
                   /\ events' = [filled[1] EXCEPT ![h] = filled[2]]
    /\ seeOut' = NoSee
    /\ UNCHANGED <<members, nodes, lastAdded, funVars, emVars>>

AddExisting ==
    /\ ~fatal
    /\ \E h \in DOMAIN events : fatal' = TRUE
    /\ seeOut' = NoSee
    /\ UNCHANGED <<members, nodes, events, lastAdded, funVars, emVars>>

\* strongly.go:37-42, called with any two hashes
SeeCall ==
    /\ ~fatal
    /\ \E who, whom \in SeeArgs(events, lastAdded) :
         seeOut' = [who |-> who, whom |-> whom, result |-> See(who, whom)]
    /\ UNCHANGED <<members, nodes, events, fatal, lastAdded, funVars, emVars>>

NextSee == Reset \/ Add \/ AddExisting \/ SeeCall

SpecSee == InitSee /\ [][NextSee]_vars

(***************************************************************************)
(* The DAG itself: ancestry read off the Parents of the indexed events.    *)
(***************************************************************************)
RECURSIVE AncestorsOrSelf(_, _)
AncestorsOrSelf(evs, h) ==
    {h} \cup UNION {AncestorsOrSelf(evs, p) : p \in evs[h].Parents \ {ZeroHash}}

\* the validators with an event that is e2 or a descendant of e2 and is e1 or
\* an ancestor of e1
ConnectingValidators(evs, e1, e2) ==
    {evs[x].Creator : x \in {y \in AncestorsOrSelf(evs, e1) :
                                e2 \in AncestorsOrSelf(evs, y)}}

(***************************************************************************)
(* C1.  With the four equal-weight validators, See(e1, e2) is true exactly *)
(* when at least 3 validators have an event that is e2 or a descendant of  *)
(* e2 and is e1 or an ancestor of e1.                                      *)
(***************************************************************************)
C1_MajorityThreshold ==
    members = Members4 =>
        \A e1, e2 \in DOMAIN events :
            (See(e1, e2) = "true")
                <=> (Cardinality(ConnectingValidators(events, e1, e2)) >= 3)

(***************************************************************************)
(* C2.  A See call in which who or whom is not indexed returns false.      *)
(***************************************************************************)
C2_SeeUnseenIsFalse ==
    (/\ seeOut.result # "none"
     /\ (seeOut.who \notin DOMAIN events \/ seeOut.whom \notin DOMAIN events))
        => seeOut.result = "false"

WordBits == 16

WordSize == 2 ^ WordBits

\* uint64 arithmetic
WrapU(x) == x % WordSize

\* int64 arithmetic (time.Duration)
WrapI(x) == LET r == x % WordSize IN IF r >= WordSize \div 2 THEN r - WordSize ELSE r

\* Go's integer division truncates toward zero
TruncDiv(a, b) ==
    IF (a >= 0) = (b > 0) THEN (IF a >= 0 THEN a ELSE -a) \div (IF b > 0 THEN b ELSE -b)
    ELSE -((IF a >= 0 THEN a ELSE -a) \div (IF b > 0 THEN b ELSE -b))

RECURSIVE SumGas(_)
SumGas(txs) == IF txs = <<>> THEN 0 ELSE Head(txs).gas + SumGas(Tail(txs))

\* inter.Event.CalcSize: the serialized size of the event, one unit for the
\* header and one for every transaction
CalcSize(e) == 1 + Len(e.Transactions)

\* emitter.go:280-300.  prev is em.prevEmittedTime and rate1 the value of
\* em.gasRate.Rate1(); the float product is a whole number here.
maxGasPowerToUse(cfg, e, prev, rate1) ==
    IF e.GasPowerLeft <= cfg.NoTxsThreshold THEN 0
    ELSE IF e.GasPowerLeft <= cfg.GasPowerControlThreshold
    THEN LET maxGasUsed == WrapU(WrapI(e.ClaimedTime - prev) * rate1
                                    * cfg.MaxGasRateGrowthFactor)
         IN  IF maxGasUsed > cfg.MaxGasPowerUsed THEN cfg.MaxGasPowerUsed
             ELSE maxGasUsed
    ELSE cfg.MaxGasPowerUsed

\* emitter.go:151-155: one transaction tx of the group txs
packTx(e, txs, tx, maxGasUsed) ==
    IF tx.gas < e.GasPowerLeft /\ WrapU(e.GasPowerUsed + tx.gas) < maxGasUsed
    THEN [e EXCEPT !.GasPowerUsed = WrapU(e.GasPowerUsed + tx.gas),
                   !.GasPowerLeft = WrapU(e.GasPowerLeft - tx.gas),
                   !.Transactions = e.Transactions \o txs]
    ELSE e

\* emitter.go:150-156: the loop over the transactions of one group, from i on
RECURSIVE packGroup(_, _, _, _)
packGroup(e, txs, i, maxGasUsed) ==
    IF i > Len(txs) THEN e
    ELSE packGroup(packTx(e, txs, txs[i], maxGasUsed), txs, i + 1, maxGasUsed)

\* emitter.go:149-157: the loop over the groups, in the order the map yields them
RECURSIVE packPool(_, _, _)
packPool(e, poolTxs, maxGasUsed) ==
    IF poolTxs = <<>> THEN e
    ELSE packPool(packGroup(e, Head(poolTxs), 1, maxGasUsed), Tail(poolTxs), maxGasUsed)

\* emitter.go:161-166
RECURSIVE spillTxs(_, _)
spillTxs(cfg, e) ==
    IF CalcSize(e) > cfg.MaxEventSize /\ Len(e.Transactions) > 0
    THEN LET tx == e.Transactions[Len(e.Transactions)]
         IN  spillTxs(cfg,
                [e EXCEPT !.GasPowerUsed = WrapU(e.GasPowerUsed - tx.gas),
                          !.GasPowerLeft = WrapU(e.GasPowerLeft + tx.gas),
                          !.Transactions = SubSeq(e.Transactions, 1,
                                                  Len(e.Transactions) - 1)])
    ELSE e

\* emitter.go:140-168.  poolErr: em.txpool.Pending() failed.
addTxs(cfg, e, poolTxs, poolErr, prev, rate1) ==
    IF poolErr THEN e
    ELSE spillTxs(cfg, packPool(e, poolTxs, maxGasPowerToUse(cfg, e, prev, rate1)))

\* emitter.go:307
adjustedEmitInterval(cfg, e) ==
    WrapI(cfg.MaxEmitInterval
          - TruncDiv(WrapI((cfg.MaxEmitInterval - cfg.MinEmitInterval)
                            * WrapI(e.GasPowerLeft)),
                     WrapI(cfg.NoTxsThreshold)))

\* emitter.go:304-312: the low-power throttle denies the emission
throttleDenies(cfg, e, prev) ==
    /\ e.GasPowerLeft <= cfg.NoTxsThreshold
    /\ WrapI(e.ClaimedTime - prev) < adjustedEmitInterval(cfg, e)

\* emitter.go:317: the condition under which the emergency rule lets the event pass
\* (variant: a strict comparison)
emergencyPasses_strict(e, selfParent) ==
    selfParent # <<>> /\ e.GasPowerLeft > selfParent[1].GasPowerLeft

emergencyPasses(e, selfParent) ==
    selfParent # <<>> /\ e.GasPowerLeft >= selfParent[1].GasPowerLeft

\* emitter.go:302-325.  selfParent is <<>> for a nil header and <<header>>
\* otherwise.  The outcome is "true", "false" or "panic": line 307 divides by
\* the threshold, and line 318 reads selfParent.GasPowerLeft for the log.
isAllowedToEmit(cfg, e, selfParent, prev) ==
    IF e.GasPowerLeft <= cfg.NoTxsThreshold /\ WrapI(cfg.NoTxsThreshold) = 0
    THEN "panic"
    ELSE IF throttleDenies(cfg, e, prev) THEN "false"
    ELSE IF e.GasPowerLeft <= cfg.EmergencyThreshold /\ ~emergencyPasses(e, selfParent)
    THEN (IF selfParent = <<>> THEN "panic" ELSE "false")
    ELSE "true"

(***************************************************************************)
(* SpecTxs: addTxs applied to every pool of at most MaxPoolTxs pending     *)
(* transactions, in every grouping by sender.                              *)
(***************************************************************************)
MaxPoolTxs == 5

TxGasValues == {300, 500}

\* the pool of the transactions 1..Len(gs) with gas gs[i], cut into groups
\* after the positions in cuts
MakePool(gs, cuts) ==
    IF Len(gs) = 0 THEN <<>>
    ELSE [g \in 1 .. (Cardinality(cuts) + 1) |->
            LET first == Cardinality({i \in 1 .. Len(gs) :
                            Cardinality({c \in cuts : c < i}) + 1 < g}) + 1
                size == Cardinality({i \in 1 .. Len(gs) :
                            Cardinality({c \in cuts : c < i}) + 1 = g})
            IN  [k \in 1 .. size |-> [id |-> first + k - 1, gas |-> gs[first + k - 1]]]]

Pools ==
    UNION {{MakePool(gs, cuts) : gs \in [1 .. n -> TxGasValues],
                                 cuts \in SUBSET (1 .. (n - 1))} : n \in 0 .. MaxPoolTxs}

PoolTxs(poolTxs) == UNION {Range(poolTxs[g]) : g \in DOMAIN poolTxs}

BaseConfig ==
    [MinEmitInterval |-> 1, MaxEmitInterval |-> 3, MaxGasRateGrowthFactor |-> 2,
     NoTxsThreshold |-> 100, GasPowerControlThreshold |-> 200,
     EmergencyThreshold |-> 50, MaxGasPowerUsed |-> 1000, MaxEventSize |-> 100]

TxsConfigs ==
    {BaseConfig,
     [BaseConfig EXCEPT !.MaxEventSize = 3],
     [BaseConfig EXCEPT !.GasPowerControlThreshold = 800]}

NewEvent ==
    [Seq |-> 1, Lamport |-> 1, ClaimedTime |-> 2,
     GasPowerUsed |-> 0, GasPowerLeft |-> 0, Transactions |-> <<>>]

InitTxs ==
    /\ IdleSee
    /\ IdleEm
    /\ config \in TxsConfigs
    /\ \E left \in {700, 1000}, poolTxs \in Pools, rate1 \in {0, 200} :
         fin = [e |-> [NewEvent EXCEPT !.GasPowerLeft = left],
                poolTxs |-> poolTxs, prev |-> 0, rate1 |-> rate1]
    /\ fout = <<>>

\* emitter.go:140-168 with a pool that answers
AddTxsCall ==
    /\ fout = <<>>
    /\ fout' = <<[e |-> addTxs(config, fin.e, fin.poolTxs, FALSE, fin.prev, fin.rate1),
                  poolErr |-> FALSE]>>
    /\ UNCHANGED <<seeVars, config, fin, emVars>>

\* emitter.go:141-145: the pool fails
AddTxsPoolError ==
    /\ fout = <<>>
    /\ fout' = <<[e |-> addTxs(config, fin.e, fin.poolTxs, TRUE, fin.prev, fin.rate1),
                  poolErr |-> TRUE]>>
    /\ UNCHANGED <<seeVars, config, fin, emVars>>

NextTxs == AddTxsCall \/ AddTxsPoolError

SpecTxs == InitTxs /\ [][NextTxs]_vars

Occurrences(txs, tx) == Cardinality({i \in DOMAIN txs : txs[i] = tx})

(***************************************************************************)
(* C7.  After addTxs the rise of GasPowerUsed and the fall of GasPowerLeft *)
(* both equal the summed gas of the transactions in the event, no pending  *)
(* transaction is in the event twice, and with GasPowerLeft 1000, ceiling  *)
(* 1000 and five pending transactions of 300 gas the event holds exactly 3 *)
(* transactions and uses 900 gas.                                          *)
(***************************************************************************)
C7_GasPackingAccounting ==
    fout # <<>> =>
        LET e == fout[1].e
            sum == SumGas(e.Transactions)
        IN  /\ e.GasPowerUsed - fin.e.GasPowerUsed = sum
            /\ fin.e.GasPowerLeft - e.GasPowerLeft = sum
            /\ \A tx \in PoolTxs(fin.poolTxs) : Occurrences(e.Transactions, tx) <= 1
            /\ (/\ ~fout[1].poolErr
                /\ config = BaseConfig
                /\ fin.e.GasPowerLeft = 1000
                /\ Cardinality(PoolTxs(fin.poolTxs)) = 5
                /\ \A tx \in PoolTxs(fin.poolTxs) : tx.gas = 300)
                   => (Len(e.Transactions) = 3 /\ e.GasPowerUsed = 900)

(***************************************************************************)
(* SpecAllow: isAllowedToEmit applied to every event, self-parent header,  *)
(* previous emission time and configuration within the bounds.             *)
(***************************************************************************)
MaxPower == 3     \* largest GasPowerLeft and threshold
MaxClock == 4     \* largest time

AllowConfigs ==
    {[BaseConfig EXCEPT !.NoTxsThreshold = n, !.EmergencyThreshold = em,
                        !.GasPowerControlThreshold = MaxPower,
                        !.MinEmitInterval = lo, !.MaxEmitInterval = hi] :
        n \in 0 .. MaxPower, em \in 0 .. MaxPower, lo \in 1 .. 2, hi \in {2, MaxClock}}

Header(seq, lamport, time, left) ==
    [Seq |-> seq, Lamport |-> lamport, ClaimedTime |-> time, GasPowerLeft |-> left]

InitAllow ==
    /\ IdleSee
    /\ IdleEm
    /\ config \in AllowConfigs
    /\ \E left \in 0 .. MaxPower, time \in 2 .. MaxClock, prev \in 0 .. 2,
          selfParent \in {<<>>} \cup {<<Header(1, 1, 1, l)>> : l \in 0 .. MaxPower} :
         fin = [e |-> [NewEvent EXCEPT !.GasPowerLeft = left, !.ClaimedTime = time,
                                      !.Seq = Len(selfParent) + 1,
                                      !.Lamport = Len(selfParent) + 1],
                selfParent |-> selfParent, prev |-> prev]
    /\ fout = <<>>

\* emitter.go:302-325
IsAllowedToEmitCall ==
    /\ fout = <<>>
    /\ fout' = <<isAllowedToEmit(config, fin.e, fin.selfParent, fin.prev)>>
    /\ UNCHANGED <<seeVars, config, fin, emVars>>

NextAllow == IsAllowedToEmitCall

SpecAllow == InitAllow /\ [][NextAllow]_vars

\* the call is over, the event has a self-parent and its GasPowerLeft is at
\* or below EmergencyThreshold
EmergencyCase ==
    /\ fout # <<>>
    /\ fin.selfParent # <<>>
    /\ fin.e.GasPowerLeft <= config.EmergencyThreshold

MaxStarts == 1          \* periodic goroutines started in a run
NumCallers == 1         \* threads calling EmitEvent synchronously
MaxSeq == 2             \* largest sequence number of an emitted event
MaxNow == 1             \* largest clock value

Ctl == <<"ctl", 0>>

Eng == <<"engine", 0>>

NoThread == <<"none", 0>>

Loop(k) == <<"loop", k>>

Caller(k) == <<"caller", k>>

Loops == {Loop(k) : k \in 1 .. MaxStarts}

Callers == {Caller(k) : k \in 1 .. NumCallers}

Emitters == Loops \cup Callers

Threads == Emitters \cup {Ctl, Eng}

\* where a thread goes when EmitEvent returns
AfterEmit(t) == IF t \in Loops THEN "select" ELSE "idle"

\* the positions inside an emission cycle: createEvent, the return of
\* EmitEvent when createEvent gave no event, the listener call, the meter and
\* time update
CyclePcs == {"create", "aborted", "listen", "update"}

NoCycle ==
    [member |-> FALSE, parents |-> FALSE, prepared |-> FALSE, allowed |-> FALSE,
     signed |-> FALSE, valid |-> FALSE, event |-> <<>>, listened |-> 0]

EmitConfig ==
    [BaseConfig EXCEPT !.MinEmitInterval = 1, !.MaxEmitInterval = 2,
                       !.MaxGasRateGrowthFactor = 1, !.NoTxsThreshold = 1,
                       !.EmergencyThreshold = 1, !.GasPowerControlThreshold = 2,
                       !.MaxGasPowerUsed = 3]

\* what Prepare can set GasPowerLeft to
EmitPowers == {0, 3}

\* Lamport times of the heads of the other creators
ForeignLamports == {2}

\* what the pool can hold, and whether reading it fails
EmitPools ==
    {<<<<>>, FALSE>>, <<<<<<[id |-> 1, gas |-> 1]>>>>, FALSE>>,
     <<<<<<[id |-> 1, gas |-> 1]>>>>, TRUE>>}

\* the coinbase is a member, signing succeeds, validation succeeds: at most
\* one of them is FALSE, as createEvent returns at the first failure
StepOutcomes ==
    {<<TRUE, TRUE, TRUE>>, <<FALSE, TRUE, TRUE>>, <<TRUE, FALSE, TRUE>>,
     <<TRUE, TRUE, FALSE>>}

\* emitter.go:53-74: NewEmitter; the other threads have not run yet
InitEmit ==
    /\ IdleSee
    /\ config = EmitConfig
    /\ fin = <<>>
    /\ fout = <<>>
    /\ pc = [t \in Threads |-> IF t \in Loops THEN "unborn" ELSE "idle"]
    /\ engineMu = NoThread
    /\ done = 0
    /\ closed = {}
    /\ wg = 0
    /\ started = 0
    /\ now = 0
    /\ prevEmittedTime = 0
    /\ gasRate = 0
    /\ lastEvent = <<>>
    /\ heads = {}
    /\ cyc = [t \in Emitters |-> NoCycle]
    /\ crashed = FALSE
    /\ ctlLast = "none"

\* sync.RWMutex.Lock (emitter.go:328) goes through when nobody holds the lock
\* (variant: it always goes through)
mutexFree_always(mu) == TRUE

mutexFree(mu) == mu = NoThread

\* sync.WaitGroup.Wait (emitter.go:111) returns when the counter is zero
\* (variant: it returns at once)
wgWaitReturns_noWait(counter) == TRUE

wgWaitReturns(counter) == counter = 0

\* emitter.go:128-138
loadPrevEmitTime(last, prev) == IF last = <<>> THEN prev ELSE last[1].ClaimedTime

\* emitter.go:225
\* (variant: the self-parent's time is not taken into account)
eventClaimedTime_nowOnly(clock, selfParentTime) == clock

eventClaimedTime(clock, selfParentTime) ==
    IF clock > selfParentTime + 1 THEN clock ELSE selfParentTime + 1

\* emitter.go:206: idx.MaxLamport over the parents' headers
RECURSIVE MaxOf(_)
MaxOf(S) ==
    IF S = {} THEN 0
    ELSE LET x == CHOOSE y \in S : TRUE
             m == MaxOf(S \ {x})
         IN  IF x > m THEN x ELSE m

\* ancestor.FindBestParents (emitter.go:197): the self-parent, when there is
\* one, and any of the heads of the other creators, given by their Lamport times
ParentChoices(hs) == SUBSET hs

\* emitter.go:195-226: the event before Prepare
buildEvent(last, foreign, clock) ==
    LET selfParentSeq == IF last = <<>> THEN 0 ELSE last[1].Seq
        selfParentTime == IF last = <<>> THEN 0 ELSE last[1].ClaimedTime
        maxLamport == MaxOf(foreign \cup (IF last = <<>> THEN {} ELSE {last[1].Lamport}))
    IN  [Seq |-> selfParentSeq + 1,
         Lamport |-> maxLamport + 1,
         ClaimedTime |-> eventClaimedTime(clock, selfParentTime),
         GasPowerUsed |-> 0,
         GasPowerLeft |-> 0,
         Transactions |-> <<>>]

\* emitter.go:171-278: what createEvent returns, from the outcomes of its steps
\* (variant: the result of the validation gate is ignored)
createEventOutcome_noGate(isMember, prepared, allow, signOK, validOK) ==
    IF ~isMember THEN "nil"
    ELSE IF ~prepared THEN "nil"
    ELSE IF allow = "panic" THEN "panic"
    ELSE IF allow = "false" THEN "nil"
    ELSE IF ~signOK THEN "nil"
    ELSE "event"

createEventOutcome(isMember, prepared, allow, signOK, validOK) ==
    IF ~isMember THEN "nil"
    ELSE IF ~prepared THEN "nil"
    ELSE IF allow = "panic" THEN "panic"
    ELSE IF allow = "false" THEN "nil"
    ELSE IF ~signOK THEN "nil"
    ELSE IF ~validOK THEN "nil"
    ELSE "event"

(***************************************************************************)
(* StartEventEmission / StopEventEmission (the controlling thread)         *)
(***************************************************************************)
\* emitter.go:77-101, em.done == nil
StartEventEmission ==
    /\ ~crashed
    /\ pc[Ctl] = "idle"
    /\ done = 0
    /\ started < MaxStarts
    /\ done' = started + 1
    /\ started' = started + 1
    /\ prevEmittedTime' = loadPrevEmitTime(lastEvent, prevEmittedTime)
    /\ wg' = wg + 1
    /\ pc' = [pc EXCEPT ![Loop(started + 1)] = "select"]
    /\ ctlLast' = "start"
    /\ UNCHANGED <<seeVars, funVars, engineMu, closed, now, gasRate,
                   lastEvent, heads, cyc, crashed>>

\* emitter.go:78-80, em.done != nil
StartAgain ==
    /\ ~crashed
    /\ pc[Ctl] = "idle"
    /\ done # 0
    /\ ctlLast' = "start"
    /\ UNCHANGED <<seeVars, funVars, pc, engineMu, done, closed, wg, started, now,
                   prevEmittedTime, gasRate, lastEvent, heads, cyc,
                   crashed>>

\* emitter.go:105-110, em.done != nil: close the channel, then wait
StopEventEmission ==
    /\ ~crashed
    /\ pc[Ctl] = "idle"
    /\ done # 0
    /\ closed' = closed \cup {done}
    /\ done' = 0
    /\ pc' = [pc EXCEPT ![Ctl] = "wait"]
    /\ UNCHANGED <<seeVars, funVars, engineMu, wg, started, now, prevEmittedTime,
                   gasRate, lastEvent, heads, cyc, crashed, ctlLast>>

\* emitter.go:111-112: em.wg.Wait() returns, and StopEventEmission with it
StopReturns ==
    /\ ~crashed
    /\ pc[Ctl] = "wait"
    /\ wgWaitReturns(wg)
    /\ pc' = [pc EXCEPT ![Ctl] = "idle"]
    /\ ctlLast' = "stop"
    /\ UNCHANGED <<seeVars, funVars, engineMu, done, closed, wg, started, now,
                   prevEmittedTime, gasRate, lastEvent, heads, cyc,
                   crashed>>

\* emitter.go:105-107, em.done == nil
StopAgain ==
    /\ ~crashed
    /\ pc[Ctl] = "idle"
    /\ done = 0
    /\ ctlLast' = "stopNoop"
    /\ UNCHANGED <<seeVars, funVars, pc, engineMu, done, closed, wg, started, now,
                   prevEmittedTime, gasRate, lastEvent, heads, cyc,
                   crashed>>

(***************************************************************************)
(* The periodic goroutine k (emitter.go:87-100)                            *)
(***************************************************************************)
\* emitter.go:340: thread t is at the assignment to em.prevEmittedTime
WritesPrevEmittedTime(t) == t \in Emitters /\ pc[t] = "update"

\* emitter.go:93, 292, 308: thread t is at a read of em.prevEmittedTime
ReadsPrevEmittedTime(t) ==
    \/ t \in Loops /\ pc[t] = "check"
    \/ t \in Emitters /\ pc[t] = "create"

\* emitter.go:92: the ticker fires
LoopTick(k) ==
    /\ ~crashed
    /\ pc[Loop(k)] = "select"
    /\ pc' = [pc EXCEPT ![Loop(k)] = "check"]
    /\ UNCHANGED <<seeVars, funVars, engineMu, done, closed, wg, started, now,
                   prevEmittedTime, gasRate, lastEvent, heads, cyc, crashed, ctlLast>>

\* emitter.go:93-95: EmitEvent is called when the time since the last emission
\* has reached MinEmitInterval.  em.prevEmittedTime is read without the engine
\* lock: a read that meets the write of another thread is a data race and
\* can yield any value, so that the test can go either way.
LoopCheck(k) ==
    /\ ~crashed
    /\ pc[Loop(k)] = "check"
    /\ LET racing == \E u \in Emitters \ {Loop(k)} : WritesPrevEmittedTime(u)
           outcomes == IF racing THEN BOOLEAN
                       ELSE {now - prevEmittedTime >= config.MinEmitInterval}
       IN  \E due \in outcomes :
             pc' = [pc EXCEPT ![Loop(k)] = IF due THEN "lock" ELSE "select"]
    /\ UNCHANGED <<seeVars, funVars, engineMu, done, closed, wg, started, now,
                   prevEmittedTime, gasRate, lastEvent, heads, cyc, crashed, ctlLast>>

\* emitter.go:96-97 and the deferred wg.Done of line 88
LoopDone(k) ==
    /\ ~crashed
    /\ pc[Loop(k)] = "select"
    /\ k \in closed
    /\ pc' = [pc EXCEPT ![Loop(k)] = "exited"]
    /\ wg' = wg - 1
    /\ UNCHANGED <<seeVars, funVars, engineMu, done, closed, started, now,
                   prevEmittedTime, gasRate, lastEvent, heads, cyc,
                   crashed, ctlLast>>

(***************************************************************************)
(* EmitEvent (emitter.go:327-344), run by a periodic goroutine or a caller *)
(***************************************************************************)
\* a thread calls EmitEvent synchronously
CallEmitEvent(t) ==
    /\ ~crashed
    /\ t \in Callers
    /\ pc[t] = "idle"
    /\ pc' = [pc EXCEPT ![t] = "lock"]
    /\ UNCHANGED <<seeVars, funVars, engineMu, done, closed, wg, started, now,
                   prevEmittedTime, gasRate, lastEvent, heads, cyc,
                   crashed, ctlLast>>

\* emitter.go:328
EmitLock(t) ==
    /\ ~crashed
    /\ pc[t] = "lock"
    /\ mutexFree(engineMu)
    /\ (IF lastEvent = <<>> THEN 0 ELSE lastEvent[1].Seq) < MaxSeq
    /\ engineMu' = t
    /\ pc' = [pc EXCEPT ![t] = "create"]
    /\ cyc' = [cyc EXCEPT ![t] = NoCycle]
    /\ UNCHANGED <<seeVars, funVars, done, closed, wg, started, now, prevEmittedTime,
                   gasRate, lastEvent, heads, crashed, ctlLast>>

\* emitter.go:331-334: where EmitEvent goes on when createEvent has returned
\* (variant: the test for nil left out)
afterCreate_noNilCheck(out) == "listen"

afterCreate(out) == IF out = "event" THEN "listen" ELSE "aborted"

\* emitter.go:331 with createEvent (171-278); a panic ends the process
CreateEvent(t) ==
    /\ ~crashed
    /\ pc[t] = "create"
    /\ \E steps \in StepOutcomes, pool \in EmitPools,
          foreign \in ParentChoices(heads),
          prepared \in {<<>>} \cup {<<l>> : l \in EmitPowers} :
         LET isMember == steps[1]
             signOK == steps[2]
             validOK == steps[3]
             poolTxs == pool[1]
             poolErr == pool[2]
             rate1 == gasRate
             built == buildEvent(lastEvent, foreign, now)
             event == IF prepared = <<>> THEN built
                      ELSE addTxs(config, [built EXCEPT !.GasPowerLeft = prepared[1]],
                                  poolTxs, poolErr, prevEmittedTime, rate1)
             allow == IF prepared = <<>> THEN "false"
                      ELSE isAllowedToEmit(config, event, lastEvent, prevEmittedTime)
             out == createEventOutcome(isMember, prepared # <<>>, allow, signOK, validOK)
             did == [member |-> isMember,
                     parents |-> isMember,
                     prepared |-> isMember /\ prepared # <<>>,
                     allowed |-> isMember /\ prepared # <<>> /\ allow = "true",
                     signed |-> isMember /\ prepared # <<>> /\ allow = "true" /\ signOK,
                     valid |-> isMember /\ prepared # <<>> /\ allow = "true" /\ signOK
                               /\ validOK,
                     event |-> IF out = "event" THEN <<event>> ELSE <<>>,
                     listened |-> 0]
         IN  IF out = "panic"
             THEN /\ cyc' = [cyc EXCEPT ![t] = NoCycle]
                  /\ pc' = [pc EXCEPT ![t] = AfterEmit(t)]
                  /\ engineMu' = IF engineMu = t THEN NoThread ELSE engineMu
                  /\ crashed' = TRUE
             ELSE /\ cyc' = [cyc EXCEPT ![t] = did]
                  /\ pc' = [pc EXCEPT ![t] = afterCreate(out)]
                  /\ UNCHANGED <<engineMu, crashed>>
    /\ UNCHANGED <<seeVars, funVars, done, closed, wg, started, now, prevEmittedTime,
                   gasRate, lastEvent, heads, ctlLast>>

\* emitter.go:332-334: createEvent gave no event; EmitEvent returns nil and its
\* deferred Unlock runs
EmitNothing(t) ==
    /\ ~crashed
    /\ pc[t] = "aborted"
    /\ engineMu' = IF engineMu = t THEN NoThread ELSE engineMu
    /\ cyc' = [cyc EXCEPT ![t] = NoCycle]
    /\ pc' = [pc EXCEPT ![t] = AfterEmit(t)]
    /\ UNCHANGED <<seeVars, funVars, done, closed, wg, started, now, prevEmittedTime,
                   gasRate, lastEvent, heads, crashed, ctlLast>>

\* emitter.go:336-338: the listener takes the event and stores it as the
\* creator's last event
Listen(t) ==
    /\ ~crashed
    /\ pc[t] = "listen"
    /\ LET e == cyc[t].event[1]
       IN  lastEvent' = <<Header(e.Seq, e.Lamport, e.ClaimedTime, e.GasPowerLeft)>>
    /\ cyc' = [cyc EXCEPT ![t].listened = @ + 1]
    /\ pc' = [pc EXCEPT ![t] = "update"]
    /\ UNCHANGED <<seeVars, funVars, engineMu, done, closed, wg, started, now,
                   prevEmittedTime, gasRate, heads, crashed, ctlLast>>

\* emitter.go:339-343 and the deferred Unlock
Update(t) ==
    /\ ~crashed
    /\ pc[t] = "update"
    /\ gasRate' = cyc[t].event[1].GasPowerUsed
    /\ prevEmittedTime' = now
    /\ engineMu' = IF engineMu = t THEN NoThread ELSE engineMu
    /\ cyc' = [cyc EXCEPT ![t] = NoCycle]
    /\ pc' = [pc EXCEPT ![t] = AfterEmit(t)]
    /\ UNCHANGED <<seeVars, funVars, done, closed, wg, started, now, lastEvent,
                   heads, crashed, ctlLast>>

(***************************************************************************)
(* The consensus engine, the other user of the engine lock, and the clock  *)
(***************************************************************************)
EngineLock ==
    /\ ~crashed
    /\ pc[Eng] = "idle"
    /\ mutexFree(engineMu)
    /\ engineMu' = Eng
    /\ pc' = [pc EXCEPT ![Eng] = "locked"]
    /\ UNCHANGED <<seeVars, funVars, done, closed, wg, started, now, prevEmittedTime,
                   gasRate, lastEvent, heads, cyc, crashed, ctlLast>>

\* an event of another creator is connected: a new head
EngineIngest ==
    /\ ~crashed
    /\ pc[Eng] = "locked"
    /\ \E l \in ForeignLamports : l \notin heads /\ heads' = heads \cup {l}
    /\ engineMu' = IF engineMu = Eng THEN NoThread ELSE engineMu
    /\ pc' = [pc EXCEPT ![Eng] = "idle"]
    /\ UNCHANGED <<seeVars, funVars, done, closed, wg, started, now, prevEmittedTime,
                   gasRate, lastEvent, cyc, crashed, ctlLast>>

\* the epoch is sealed: the new epoch has no events yet
EngineNewEpoch ==
    /\ ~crashed
    /\ pc[Eng] = "locked"
    /\ lastEvent' = <<>>
    /\ heads' = {}
    /\ engineMu' = IF engineMu = Eng THEN NoThread ELSE engineMu
    /\ pc' = [pc EXCEPT ![Eng] = "idle"]
    /\ UNCHANGED <<seeVars, funVars, done, closed, wg, started, now, prevEmittedTime,
                   gasRate, cyc, crashed, ctlLast>>

Tick ==
    /\ ~crashed
    /\ now < MaxNow
    /\ now' = now + 1
    /\ UNCHANGED <<seeVars, funVars, pc, engineMu, done, closed, wg, started,
                   prevEmittedTime, gasRate, lastEvent, heads, cyc,
                   crashed, ctlLast>>

LoopStep == \E k \in 1 .. MaxStarts : LoopTick(k) \/ LoopCheck(k) \/ LoopDone(k)

EmitStep ==
    \E t \in Emitters :
        \/ CallEmitEvent(t) \/ EmitLock(t) \/ CreateEvent(t)
        \/ EmitNothing(t) \/ Listen(t) \/ Update(t)

NextEmit ==
    \/ StartEventEmission \/ StartAgain
    \/ StopEventEmission \/ StopReturns \/ StopAgain
    \/ LoopStep
    \/ EmitStep
    \/ EngineLock \/ EngineIngest \/ EngineNewEpoch
    \/ Tick

SpecEmit == InitEmit /\ [][NextEmit]_vars

(***************************************************************************)
(* Properties of the emission cycle.                                       *)
(***************************************************************************)
AllStepsSucceeded(c) ==
    /\ c.member
    /\ c.parents
    /\ c.prepared
    /\ c.allowed
    /\ c.signed
    /\ c.valid
    /\ c.event # <<>>

\* C5: no partial event is exposed.  In every emission cycle, of the periodic
\* goroutine or of a synchronous EmitEvent call, the listener is invoked at
\* most once, and a cycle that is about to invoke it or has invoked it is one
\* in which the membership check, parent selection, Prepare, the admission
\* check, signing and the validation gate have all succeeded; a cycle in
\* which one of them declined or failed never gets to the listener.
C5_NoPartialEventExposed ==
    \A t \in Emitters :
        /\ cyc[t].listened <= 1
        /\ (pc[t] = "listen" \/ cyc[t].listened > 0) => AllStepsSucceeded(cyc[t])
        /\ (pc[t] \in {"listen", "update"}) = (cyc[t].event # <<>>)

\* a cycle has handed its event, with transactions in it, to the listener
C5_Witness ==
    \E t \in Emitters :
        /\ pc[t] = "update"
        /\ cyc[t].listened = 1
        /\ Len(cyc[t].event[1].Transactions) > 0

\* C6: sequencing invariant.  Whenever the listener stores a newly emitted
\* event as the creator's last event, the new event has Seq = 1 if the creator
\* had no event in the epoch, and otherwise its Seq is the previous event's
\* Seq plus one and its Lamport time and ClaimedTime are strictly greater than
\* the previous event's.
C6_SequencingInvariant ==
    [][(lastEvent' # lastEvent /\ lastEvent' # <<>>) =>
          IF lastEvent = <<>>
          THEN lastEvent'[1].Seq = 1
          ELSE /\ lastEvent'[1].Seq = lastEvent[1].Seq + 1
               /\ lastEvent'[1].Lamport > lastEvent[1].Lamport
               /\ lastEvent'[1].ClaimedTime > lastEvent[1].ClaimedTime]_vars

\* a second event of the epoch was emitted before the clock moved past its
\* self-parent's time: its ClaimedTime is the self-parent's plus one
C6_Witness ==
    /\ lastEvent # <<>>
    /\ lastEvent[1].Seq = 2
    /\ lastEvent[1].ClaimedTime > now

\* C9: emission cycles are mutually exclusive.  At any time at most one
\* thread, periodic or synchronous, is inside an emission cycle (createEvent,
\* the listener call, the meter and time update); that thread holds the
\* engine lock; and while the consensus engine holds the lock no cycle is in
\* progress.
C9_CyclesMutuallyExclusive ==
    /\ Cardinality({t \in Emitters : pc[t] \in CyclePcs}) <= 1
    /\ \A t \in Emitters : pc[t] \in CyclePcs => engineMu = t
    /\ pc[Eng] = "locked" =>
          /\ engineMu = Eng
          /\ \A t \in Emitters : pc[t] \notin CyclePcs

\* the periodic goroutine is inside a cycle while a synchronous caller waits
\* for the lock, or the other way round
C9_Witness ==
    \E t, u \in Emitters :
        /\ t[1] # u[1]
        /\ pc[t] \in CyclePcs
        /\ pc[u] = "lock"

LoopsGone == \A k \in 1 .. MaxStarts : pc[Loop(k)] \in {"unborn", "exited"}

\* C10: graceful shutdown.  Once StopEventEmission has returned, and until
\* the next StartEventEmission, no periodic goroutine is alive: any cycle it
\* had started is finished and it starts no other cycle and calls the listener
\* no more.  A StopEventEmission call that finds the emitter stopped changes
\* nothing and returns.
C10_GracefulShutdown ==
    /\ [](ctlLast \in {"stop", "stopNoop"} => (done = 0 /\ wg = 0 /\ LoopsGone))
    /\ [][(ctlLast' # ctlLast /\ ctlLast' = "stopNoop") =>
            UNCHANGED <<pc, engineMu, done, closed, wg, started, now, prevEmittedTime,
                        gasRate, lastEvent, heads, cyc, crashed>>]_vars

\* StopEventEmission is waiting while the periodic goroutine is inside a cycle
C10_WitnessDrain ==
    /\ pc[Ctl] = "wait"
    /\ \E k \in 1 .. MaxStarts : pc[Loop(k)] \in CyclePcs

(***************************************************************************)
(***************************************************************************)
(* Further properties of the Strongly engine.                              *)
(***************************************************************************)
(***************************************************************************)

\* C11: duplicate insertion.  The Add of an event whose hash is already
\* indexed is reported as a fatal error and changes nothing: the step that
\* raises the fatal error leaves every ancestry record, the creator-slot table,
\* the set of indexed events and the validator set as they were.
C11_DuplicateAddChangesNothing ==
    [][(~fatal /\ fatal') =>
          (events' = events /\ nodes' = nodes /\ members' = members)]_vars

\* a duplicate Add was reported on an engine in which an event already had
\* its own slot overwritten by its creator's next event (building the record
\* anew would not give the same record)
C11_Witness ==
    /\ fatal
    /\ \E a \in DOMAIN events :
          events[a].LowestSees[events[a].CreatorN] > events[a].Index

(***************************************************************************)
(* SpecReset: an engine that is reset after some events were added, next   *)
(* to an engine freshly created by New with the members of the Reset; both *)
(* are then given the same Add calls.  The first engine is in members,     *)
(* nodes and events; fout holds the second one, <<>> before the first      *)
(* Reset; fin records whether the first engine held events when it was     *)
(* reset.                                                                  *)
(***************************************************************************)
MaxReplayEvents == 3    \* events added between two Resets

\* strongly.go:50-59: Add of the event <<c, index>>, not yet indexed, with the
\* given parents, yielded by the map iteration in the given order
AddTo(mm, ns, evs, c, index, parents, order) ==
    LET h == <<c, index>>
        event == [NewEventRecord(mm, c, index, parents)
                    EXCEPT !.CreatorN = setNodesSlot(ns, c)]
        filled == fillEventRefs(evs, event, order)
    IN  [members |-> mm,
         nodes |-> setNodes(ns, c),
         events |-> [x \in DOMAIN evs \cup {h} |->
                        IF x = h THEN filled[2] ELSE filled[1][x]]]

\* strongly.go:31-35: the engine after Reset(mm); ns is ss.nodes before the call
\* (variant: line 33 left out)
resetEngine_keepNodes(mm, ns) == [members |-> mm, nodes |-> ns, events |-> <<>>]

resetEngine(mm, ns) == [members |-> mm, nodes |-> <<>>, events |-> <<>>]

\* strongly.go:21-28: New(mm) calls Reset on a Strongly that holds nothing
New(mm) == resetEngine(mm, <<>>)

InitReset ==
    /\ IdleFun
    /\ IdleEm
    /\ \E mm \in MemberSets :
         /\ members = New(mm).members
         /\ nodes = New(mm).nodes
         /\ events = New(mm).events
    /\ fatal = FALSE
    /\ lastAdded = NilEvent
    /\ seeOut = NoSee

\* strongly.go:31-35 on the first engine, New on the second
ReplayReset ==
    /\ \E mm \in MemberSets :
         LET after == resetEngine(mm, nodes)
         IN  /\ members' = after.members
             /\ nodes' = after.nodes
             /\ events' = after.events
             /\ fout' = <<New(mm)>>
    /\ fin' = [dirty |-> events # <<>>]
    /\ lastAdded' = NilEvent
    /\ UNCHANGED <<fatal, seeOut, config, emVars>>

\* strongly.go:44-60: the same Add on both engines
ReplayAdd ==
    /\ Cardinality(DOMAIN events) < MaxReplayEvents
    /\ \E c \in Creators(members, events) :
         \E others \in OtherParentSets(events, c) :
           LET index == Cardinality(EventsBy(events, c)) + 1
               parents == {SelfParent(events, c)} \cup others
           IN  \E order \in Orders(parents) :
                 LET after == AddTo(members, nodes, events, c, index, parents, order)
                 IN  /\ nodes' = after.nodes
                     /\ events' = after.events
                     /\ lastAdded' = <<c, index>>
                     /\ fout' = IF fout = <<>> THEN <<>>
                                ELSE <<AddTo(fout[1].members, fout[1].nodes,
                                             fout[1].events, c, index, parents, order)>>
    /\ UNCHANGED <<members, fatal, seeOut, config, fin, emVars>>

NextReset == ReplayReset \/ ReplayAdd

SpecReset == InitReset /\ [][NextReset]_vars

\* strongly.go:37-42 for every pair of indexed events
SeeTable(mm, ns, evs) ==
    [pair \in (DOMAIN evs) \X (DOMAIN evs) |->
        sufficientCoherence(mm, ns, evs, pair[1], pair[2])]

\* C12: idempotent reset.  Right after Reset(members) the engine holds no
\* ancestry record and no creator slot; and after any Add sequence run since
\* the Reset, the creator-slot table, every ancestry record (CreatorSlot,
\* LowestSees, HighestSeen) and every See result are the same as in an engine
\* created by New with the same members and given the same Add calls, whatever
\* the engine held before the Reset.
C12_IdempotentReset ==
    fout # <<>> =>
        /\ lastAdded = NilEvent => (events = <<>> /\ nodes = <<>>)
        /\ fout[1].members = members
        /\ fout[1].nodes = nodes
        /\ fout[1].events = events
        /\ SeeTable(fout[1].members, fout[1].nodes, fout[1].events)
              = SeeTable(members, nodes, events)

\* an engine that held events was reset, and events of two creators were
\* added since
C12_Witness ==
    /\ fout # <<>>
    /\ fin.dirty
    /\ Cardinality(DOMAIN nodes) >= 2

\* C13: a validator without events has no weight.  For every pair of
\* indexed events who, whom, the test of sufficientCoherence counts a
\* validator only if an event created by that validator is whom or a
\* descendant of whom and is who or an ancestor of who; in particular a
\* validator that has created no indexed event is never counted.
C13_NonCreatorHasNoWeight ==
    \A who, whom \in DOMAIN events :
        \A m \in DOMAIN members :
            Coherent(nodes, events[who], events[whom], m) =>
                /\ EventsBy(events, m) # {}
                /\ m \in ConnectingValidators(events, who, whom)

\* the largest Index among the events of creator c that are e or ancestors
\* of e, 0 if there is none
HighestAncestorOf(evs, e, c) ==
    MaxOf({evs[x].Index : x \in {y \in AncestorsOrSelf(evs, e) : evs[y].Creator = c}})

\* C14: HighestSeen is exact and final.  For every indexed event e and every
\* validator n that has created an indexed event, e.HighestSeen[slot of n] is
\* the largest sequence number among the events of n that are e itself or
\* ancestors of e, 0 if there is none; and no Add changes the HighestSeen
\* array of an event that is already indexed.
C14_HighestSeenExact ==
    /\ [](\A e \in DOMAIN events :
            \A n \in DOMAIN nodes :
                events[e].HighestSeen[nodes[n]] = HighestAncestorOf(events, e, n))
    /\ [][\A e \in DOMAIN events \cap DOMAIN events' :
            events'[e].HighestSeen = events[e].HighestSeen]_vars

\* an event holds, in the slot of another validator, the Index of an
\* ancestor that is none of its parents, and none of its parents is of that
\* validator
C14_Witness ==
    \E e, x \in DOMAIN events :
        /\ x \in AncestorsOrSelf(events, e)
        /\ events[x].Creator # events[e].Creator
        /\ \A p \in events[e].Parents \ {ZeroHash} : events[p].Creator # events[x].Creator
        /\ events[e].HighestSeen[nodes[events[x].Creator]] = events[x].Index

(***************************************************************************)
(***************************************************************************)
(* Further properties of the Emitter.                                      *)
(***************************************************************************)
(***************************************************************************)

\* C15: the first event of the epoch under low power.  For an event without
\* self-parent whose GasPowerLeft is at or below EmergencyThreshold,
\* isAllowedToEmit completes and returns false (stated for the configurations
\* with NoTxsThreshold > 0, in which the throttle does not divide by zero).
C15_NoSelfParentDenied ==
    (/\ fout # <<>>
     /\ fin.selfParent = <<>>
     /\ fin.e.GasPowerLeft <= config.EmergencyThreshold
     /\ config.NoTxsThreshold > 0)
        => fout[1] = "false"

\* C16: prevEmittedTime is guarded.  In no state is one thread at a read or
\* at the write of em.prevEmittedTime while another thread is at the write of
\* it.
C16_PrevEmittedTimeGuarded ==
    \A t, u \in Threads :
        (t # u /\ WritesPrevEmittedTime(t)) =>
            ~(ReadsPrevEmittedTime(u) \/ WritesPrevEmittedTime(u))

\* C17: an aborted cycle changes nothing.  When createEvent gives no event
\* (the identity is not a member, Prepare declines, isAllowedToEmit denies,
\* signing fails or the validation gate fails) the cycle goes to the return
\* of EmitEvent and neither to the listener nor to the update; from the
\* moment the cycle has the lock until EmitEvent has returned, the gas-rate
\* meter, prevEmittedTime and the creator's last event stay as they were, and
\* the lock is free again afterwards.  (Stated for the cycles that do not end
\* in a panic.)
C17_AbortedCycleChangesNothing ==
    /\ [](\A t \in Emitters :
            /\ (pc[t] \in {"listen", "update"}) => cyc[t].event # <<>>
            /\ pc[t] = "aborted" =>
                  /\ ~AllStepsSucceeded(cyc[t])
                  /\ cyc[t].listened = 0
                  /\ engineMu = t)
    /\ [][\A t \in Emitters :
            (/\ pc[t] \in {"create", "aborted"}
             /\ pc'[t] # pc[t]
             /\ ~crashed'
             /\ pc'[t] \notin {"listen", "update"}) =>
                /\ UNCHANGED <<gasRate, prevEmittedTime, lastEvent>>
                /\ pc'[t] # "aborted" => (pc'[t] = AfterEmit(t) /\ engineMu' = NoThread)]_vars

\* a cycle in which signing succeeded and the validation gate failed is at
\* the return of EmitEvent, after an earlier event was emitted
C17_Witness ==
    \E t \in Emitters :
        /\ pc[t] = "aborted"
        /\ cyc[t].signed
        /\ ~cyc[t].valid
        /\ lastEvent # <<>>

(***************************************************************************)
(* SpecThrottle: isAllowedToEmit applied to events under low power, with   *)
(* intervals and thresholds from a few units up to values whose product    *)
(* does not fit the machine word.  The event has a self-parent with the    *)
(* same GasPowerLeft, so that the emergency rule lets it pass.             *)
(***************************************************************************)
ThrottleThresholds == {1, 2, 3, 100}

ThrottleIntervals == {1, 2, 3, 100, 500, 1000}

ThrottleTimes == {0, 1, 2, 3, 100, 300, 500, 700}

ThrottleConfigs ==
    {c \in {[BaseConfig EXCEPT !.NoTxsThreshold = n, !.EmergencyThreshold = 0,
                               !.GasPowerControlThreshold = n,
                               !.MinEmitInterval = lo, !.MaxEmitInterval = hi] :
                n \in ThrottleThresholds,
                lo \in ThrottleIntervals,
                hi \in ThrottleIntervals} :
        c.MinEmitInterval <= c.MaxEmitInterval}

InitThrottle ==
    /\ IdleSee
    /\ IdleEm
    /\ config \in ThrottleConfigs
    /\ \E left \in {0, 1, 2, 3, 50, 99, 100}, time \in ThrottleTimes :
         /\ left <= config.NoTxsThreshold
         /\ fin = [e |-> [NewEvent EXCEPT !.GasPowerLeft = left, !.ClaimedTime = time,
                                          !.Seq = 2, !.Lamport = 2],
                   selfParent |-> <<Header(1, 1, 0, left)>>, prev |-> 0]
    /\ fout = <<>>

\* emitter.go:302-325
ThrottleCall ==
    /\ fout = <<>>
    /\ fout' = <<isAllowedToEmit(config, fin.e, fin.selfParent, fin.prev)>>
    /\ UNCHANGED <<seeVars, config, fin, emVars>>

NextThrottle == ThrottleCall

SpecThrottle == InitThrottle /\ [][NextThrottle]_vars

\* C18: low-power throttle.  With NoTxsThreshold > 0, MinEmitInterval <=
\* MaxEmitInterval and GasPowerLeft in 0..NoTxsThreshold, the adjusted interval
\* that isAllowedToEmit computes lies between MinEmitInterval and
\* MaxEmitInterval, is MaxEmitInterval at GasPowerLeft 0 and MinEmitInterval at
\* GasPowerLeft = NoTxsThreshold, is not larger than the interval of any
\* smaller GasPowerLeft, and the emission is denied exactly when the time
\* from prevEmittedTime to the event's ClaimedTime is below it.
C18_ThrottleInterval ==
    (fout # <<>> /\ fin.e.GasPowerLeft <= config.NoTxsThreshold) =>
        LET adjusted == adjustedEmitInterval(config, fin.e)
        IN  /\ config.MinEmitInterval <= adjusted
            /\ adjusted <= config.MaxEmitInterval
            /\ fin.e.GasPowerLeft = 0 => adjusted = config.MaxEmitInterval
            /\ fin.e.GasPowerLeft = config.NoTxsThreshold
                  => adjusted = config.MinEmitInterval
            /\ \A g \in 0 .. fin.e.GasPowerLeft :
                  adjustedEmitInterval(config, [fin.e EXCEPT !.GasPowerLeft = g])
                      >= adjusted
            /\ (fout[1] = "false") = (fin.e.ClaimedTime - fin.prev < adjusted)

\* C19: strongly-see is stable.  For any two indexed events a and b, if
\* See(a, b) is true before an Add it is true after it.
C19_SeeStable ==
    [][\A a, b \in DOMAIN events \cap DOMAIN events' :
          See(a, b) = "true" =>
              sufficientCoherence(members', nodes', events', a, b) = "true"]_vars

\* the parents-before-children orders of the events of the DAG evs
TopoOrders(evs) ==
    {o \in Orders(DOMAIN evs) :
        \A i, j \in DOMAIN o : o[j] \in evs[o[i]].Parents => j < i}

\* strongly.go:21-60: New(mm), then Add of the events of the DAG evs in the
\* order seq
RECURSIVE Replay(_, _, _)
Replay(mm, evs, seq) ==
    IF seq = <<>> THEN New(mm)
    ELSE LET before == Replay(mm, evs, SubSeq(seq, 1, Len(seq) - 1))
             e == evs[seq[Len(seq)]]
         IN  AddTo(mm, before.nodes, before.events, e.Creator, e.Index, e.Parents,
                   CHOOSE order \in Orders(e.Parents) : TRUE)

\* C20: See is determined by the DAG alone.  Whatever parents-before-children
\* order the indexed events are added in to a new engine with the same
\* validator set, See gives for every pair of events the result it gives in
\* this engine.
C20_SeeOrderIndependent ==
    \A seq \in TopoOrders(events) :
        LET other == Replay(members, events, seq)
        IN  SeeTable(other.members, other.nodes, other.events)
                = SeeTable(members, nodes, events)

====
